---- MODULE Spec2Model ----
(***************************************************************************)
(* Model of the observability charm libraries:                             *)
(*   - kubernetes_compute_resources_patch (v0): spec validation and        *)
(*     sanitisation, ResourcePatcher and the reconcile pass (_patch).      *)
(*   - cert_handler (v1): CertHandler's event handlers.                    *)
(* Quantities are kept as integers in thousandths (lightkube's             *)
(* parse_quantity quantizes to 0.001).                                     *)
(***************************************************************************)
EXTENDS Integers, Sequences, FiniteSets, TLC

(***************************************************************************)
(* Bounds of the model.                                                    *)
(***************************************************************************)
\* number of lifecycle events delivered to the resources patch
MaxEvents == 2
\* number of changes made from outside: to the StatefulSet by other
\* controllers, to the charm's configuration by the operator
MaxEdits == 1
\* number of private keys and CSRs generated
MaxIds == 5
\* number of certificates the CA issues
MaxCerts == 2
\* certificates relations Juju creates, one after the other
MaxRels == 2
\* entries of a dict passed to the spec functions
MaxItems == 2
\* distinct values a caller stores under a key of the vault
MaxVals == 2

(***************************************************************************)
(* Values of a resource spec dict: None, or a string.  A string is kept as *)
(* its leading number (mant, in thousandths), whether it has one (num),    *)
(* and its unit suffix.  A caller may also pass a number (kind int).       *)
(***************************************************************************)
NoneV == [k |-> "none", num |-> FALSE, mant |-> 0, unit |-> ""]
Absent == [k |-> "absent", num |-> FALSE, mant |-> 0, unit |-> ""]
Str(num, mant, unit) == [k |-> "str", num |-> num, mant |-> mant, unit |-> unit]
IntV(n) == [k |-> "int", num |-> TRUE, mant |-> n * 1000, unit |-> ""]

\* the strings used as inputs
Q1 == Str(TRUE, 1000, "")
Q1000m == Str(TRUE, 1000000, "m")
Q2 == Str(TRUE, 2000, "")
QNeg1 == Str(TRUE, -1000, "")
Q4x == Str(TRUE, 4000, "x")
QEmpty == Str(FALSE, 0, "")
Q1p5 == Str(TRUE, 1500, "")
Q500m == Str(TRUE, 500000, "m")
Q200m == Str(TRUE, 200000, "m")
Q250m == Str(TRUE, 250000, "m")
Q260m == Str(TRUE, 260000, "m")
Q150m == Str(TRUE, 150000, "m")
Q0 == Str(TRUE, 0, "")
Q0p8Ki == Str(TRUE, 800, "Ki")
Q1Ki == Str(TRUE, 1000, "Ki")
Q820 == Str(TRUE, 820000, "")
QCombo == Str(FALSE, 0, "combo")
I1 == IntV(1)
I0 == IntV(0)

\* Python truthiness of a spec value: None and "" are falsy
Truthy(v) ==
  \/ v.k = "str" /\ (v.num \/ v.unit # "")
  \/ v.k = "int" /\ v.mant # 0

\* integer helpers
CeilDiv(a, b) == IF a % b = 0 THEN a \div b ELSE (a \div b) + 1
\* Decimal.quantize(..., ROUND_UP): away from zero
RoundUpDiv(a, b) == IF a >= 0 THEN CeilDiv(a, b) ELSE -CeilDiv(-a, b)

(***************************************************************************)
(* lightkube.utils.quantity.parse_quantity: None for None, ValueError for  *)
(* a string without a leading number or with an unknown suffix, else the   *)
(* value times the suffix's multiplier, quantized to 0.001 rounding up.    *)
(* val is in thousandths.  A value that is not a string makes re.match     *)
(* raise TypeError.                                                        *)
(***************************************************************************)
parse_quantity(v) ==
  IF v.k = "none" THEN [ok |-> TRUE, isNone |-> TRUE, val |-> 0, exc |-> ""]
  ELSE IF v.k = "int"
    THEN [ok |-> FALSE, isNone |-> FALSE, val |-> 0, exc |-> "TypeError"]
  ELSE IF ~v.num \/ v.unit \notin {"", "m", "k", "Ki"}
    THEN [ok |-> FALSE, isNone |-> FALSE, val |-> 0, exc |-> "ValueError"]
  ELSE [ok |-> TRUE, isNone |-> FALSE, exc |-> "",
        val |-> CASE v.unit = "" -> v.mant
                  [] v.unit = "m" -> RoundUpDiv(v.mant, 1000)
                  [] v.unit = "k" -> v.mant * 1000
                  [] v.unit = "Ki" -> v.mant * 1024]

(***************************************************************************)
(* Resource spec dicts: None, or a dict over a subset of the keys.         *)
(***************************************************************************)
Keys == {"cpu", "memory", "bad"}
ResourceSpecKeys == {"cpu", "memory"}
NoneSpec ==
  [isNone |-> TRUE, isDict |-> FALSE, keys |-> {},
   val |-> [k \in Keys |-> Absent]]
\* a spec that is neither None nor a dict
NotDictSpec == [NoneSpec EXCEPT !.isNone = FALSE]
Dict(keys, f) ==
  [isNone |-> FALSE, isDict |-> TRUE, keys |-> keys,
   val |-> [k \in Keys |-> IF k \in keys THEN f[k] ELSE Absent]]
EmptySpec == Dict({}, [k \in Keys |-> Absent])
\* `not spec`
Falsy(spec) == spec.isNone \/ spec.keys = {}

is_valid_spec_any_sign(spec) ==
  IF spec.isNone THEN TRUE
  ELSE IF ~spec.isDict THEN FALSE
  ELSE \A k \in spec.keys :
         k \in ResourceSpecKeys /\ parse_quantity(spec.val[k]).ok

is_valid_spec(spec) ==
  IF spec.isNone THEN TRUE
  ELSE IF ~spec.isDict THEN FALSE
  ELSE \A k \in spec.keys :
         /\ k \in ResourceSpecKeys
         /\ parse_quantity(spec.val[k]).ok
         /\ LET pv == parse_quantity(spec.val[k])
            IN ~(~pv.isNone /\ pv.val # 0 /\ pv.val < 0)

\* floor and ceil of a quantity in thousandths, in units
Floor(x) == x \div 1000
Ceil(x) == CeilDiv(x, 1000)
\* Decimal.remainder_near(x, n): x - n * (x/n rounded half to even);
\* x in thousandths, n in units, n # 0
remainder_near_pos(x, n) ==
  LET d == n * 1000
      q == x \div d
      r == x % d
      qn == IF 2 * r < d THEN q
            ELSE IF 2 * r > d THEN q + 1
            ELSE IF q % 2 = 0 THEN q ELSE q + 1
  IN x - d * qn
remainder_near(x, n) ==
  IF n > 0 THEN remainder_near_pos(x, n) ELSE -remainder_near_pos(-x, -n)

(***************************************************************************)
(* sanitize_resource_spec_dict: drops falsy values, rounds memory up to    *)
(* whole bytes.  exc is the exception it raises, "" when it returns.       *)
(***************************************************************************)
\* variant that moves every memory quantity to the byte after its floor
sanitize_resource_spec_dict_floor_plus_one(spec) ==
  IF Falsy(spec) THEN [exc |-> "", val |-> spec]
  ELSE
    LET dkeys == {k \in spec.keys : Truthy(spec.val[k])}
        d == Dict(dkeys, spec.val)
        memory == d.val["memory"]
    IN IF "memory" \in dkeys /\ Truthy(memory)
       THEN LET p == parse_quantity(memory)
            IN IF ~p.ok THEN [exc |-> p.exc, val |-> d]
               ELSE IF p.val = 0 THEN [exc |-> "", val |-> d]
               ELSE [exc |-> "",
                     val |-> Dict(dkeys, [d.val EXCEPT !["memory"] =
                                Str(TRUE, (Floor(p.val) + 1) * 1000, "")])]
       ELSE [exc |-> "", val |-> d]
sanitize_resource_spec_dict(spec) ==
  IF Falsy(spec) THEN [exc |-> "", val |-> spec]
  ELSE
    LET dkeys == {k \in spec.keys : Truthy(spec.val[k])}
        d == Dict(dkeys, spec.val)
        memory == d.val["memory"]
    IN IF "memory" \in dkeys /\ Truthy(memory)
       THEN LET p == parse_quantity(memory)
            IN IF ~p.ok THEN [exc |-> p.exc, val |-> d]
               ELSE IF p.val = 0 THEN [exc |-> "", val |-> d]
               ELSE IF Floor(p.val) = 0
                 THEN [exc |-> "InvalidOperation", val |-> d]
               ELSE IF remainder_near(p.val, Floor(p.val)) # 0
                 THEN [exc |-> "",
                       val |-> Dict(dkeys, [d.val EXCEPT !["memory"] =
                                              Str(TRUE, Ceil(p.val) * 1000, "")])]
               ELSE [exc |-> "", val |-> d]
       ELSE [exc |-> "", val |-> d]

(***************************************************************************)
(* is_valid_spec on any argument: items is the order in which the dict     *)
(* yields its keys.  The outcome is "True", "False" or the exception that  *)
(* leaves the function.                                                    *)
(***************************************************************************)
\* one round of the loop: "next" when the entry passes
is_valid_entry(k, v) ==
  IF k \notin ResourceSpecKeys THEN "False"
  ELSE IF v.k \notin {"str", "none"} THEN "AssertionError"
  ELSE LET pv == parse_quantity(v)
       IN IF ~pv.ok THEN "False"
          ELSE IF ~pv.isNone /\ pv.val # 0 /\ pv.val < 0 THEN "False"
          ELSE "next"

RECURSIVE is_valid_items(_, _)
is_valid_items(spec, items) ==
  IF items = <<>> THEN "True"
  ELSE LET r == is_valid_entry(Head(items), spec.val[Head(items)])
       IN IF r = "next" THEN is_valid_items(spec, Tail(items)) ELSE r

is_valid_spec_outcome(spec, items) ==
  IF spec.isNone THEN "True"
  ELSE IF ~spec.isDict THEN "False"
  ELSE is_valid_items(spec, items)

(***************************************************************************)
(* ray_hopper, on quantities in thousandths; val is in millionths.         *)
(***************************************************************************)
\* variant without the plateau between x0 and a1 * x0 / a2
ray_hopper_no_plateau(x, a1, a2, x0) ==
  IF x < 0 \/ a1 < 0 \/ a2 < 0 \/ x0 < 0 THEN [exc |-> "ValueError", val |-> 0]
  ELSE IF a1 <= a2 THEN [exc |-> "ValueError", val |-> 0]
  ELSE IF x <= x0 THEN [exc |-> "", val |-> a1 * x]
  ELSE [exc |-> "", val |-> a2 * x]
ray_hopper(x, a1, a2, x0) ==
  IF x < 0 \/ a1 < 0 \/ a2 < 0 \/ x0 < 0 THEN [exc |-> "ValueError", val |-> 0]
  ELSE IF a1 <= a2 THEN [exc |-> "ValueError", val |-> 0]
  ELSE IF x <= x0 THEN [exc |-> "", val |-> a1 * x]
  ELSE IF a2 = 0 THEN [exc |-> "DivisionByZero", val |-> 0]
  \* x <= a1 * x0 / a2
  ELSE IF x * a2 <= a1 * x0 THEN [exc |-> "", val |-> a1 * x0]
  ELSE [exc |-> "", val |-> a2 * x]

(***************************************************************************)
(* limits_to_requests_scaled; scaling_factor is in thousandths.            *)
(***************************************************************************)
\* variant that rounds up to whole units
quantize_to_units(val) == Str(TRUE, RoundUpDiv(val, 1000000) * 1000, "")
\* str(value.quantize(Decimal("0.001"), rounding=ROUND_UP)), value in
\* millionths
quantize(val) == Str(TRUE, RoundUpDiv(val, 1000), "")

\* sanitize_resource_spec_dict(...) or {}
or_empty(spec) == IF Falsy(spec) THEN EmptySpec ELSE spec

limits_to_requests_scaled(resource_limits, itemsL, default_requests, itemsD, scaling_factor) ==
  LET vl == is_valid_spec_outcome(resource_limits, itemsL)
      vd == is_valid_spec_outcome(default_requests, itemsD)
      sl == sanitize_resource_spec_dict(resource_limits)
      sd == sanitize_resource_spec_dict(default_requests)
      limits == or_empty(sl.val)
      defaults == or_empty(sd.val)
      keys == ResourceSpecKeys \cap defaults.keys
      value(k) ==
        LET default == parse_quantity(defaults.val[k]).val
        IN IF k \in limits.keys
             THEN ray_hopper(parse_quantity(limits.val[k]).val, 1000,
                             scaling_factor, default).val
             ELSE default * 1000
  IN IF ~(0 < scaling_factor /\ scaling_factor < 1000)
       THEN [exc |-> "ValueError", val |-> NoneSpec]
     ELSE IF vl \notin {"True", "False"} THEN [exc |-> vl, val |-> NoneSpec]
     ELSE IF vl = "False" THEN [exc |-> "ValueError", val |-> NoneSpec]
     ELSE IF vd \notin {"True", "False"} THEN [exc |-> vd, val |-> NoneSpec]
     ELSE IF vd = "False" THEN [exc |-> "ValueError", val |-> NoneSpec]
     ELSE IF sl.exc # "" THEN [exc |-> sl.exc, val |-> NoneSpec]
     ELSE IF sd.exc # "" THEN [exc |-> sd.exc, val |-> NoneSpec]
     ELSE [exc |-> "",
           val |-> Dict(keys, [k \in Keys |->
                                 IF k \in keys THEN quantize(value(k))
                                 ELSE Absent])]

(***************************************************************************)
(* ResourceRequirements and lightkube's equals_canonically.                *)
(***************************************************************************)
ResourceRequirements(limits, requests) == [limits |-> limits, requests |-> requests]
NoResources == ResourceRequirements(NoneSpec, NoneSpec)

equals_dict(first, second) ==
  IF first = second THEN TRUE
  ELSE IF ~Falsy(first) /\ ~Falsy(second)
    THEN /\ first.keys = second.keys
         /\ \A k \in first.keys :
              parse_quantity(first.val[k]) = parse_quantity(second.val[k])
  ELSE Falsy(first) /\ Falsy(second)

equals_canonically(first, second) ==
  /\ equals_dict(first.limits, second.limits)
  /\ equals_dict(first.requests, second.requests)

(***************************************************************************)
(* The Kubernetes side: the StatefulSet template and the unit's pod, each  *)
(* a list of containers unique by name.  image stands for every field of a *)
(* container other than its resources.                                     *)
(***************************************************************************)
Containers == {"charm", "placeholder"}
ContainerNames == {"placeholder", "absent-name"}

OneKey(k, v) == Dict({k}, [x \in Keys |-> v])
TwoKeys(c, m) == Dict({"cpu", "memory"}, [x \in Keys |-> IF x = "cpu" THEN c ELSE m])

\* the charm's configuration: what limits_func and requests_func do when
\* called (raise ValueError, or return these specs)
Cfg(l, r) == [raises |-> FALSE, limits |-> l, requests |-> r]
Configs ==
  { [raises |-> TRUE, limits |-> NoneSpec, requests |-> NoneSpec],
    Cfg(NoneSpec, NoneSpec),
    Cfg(OneKey("cpu", Q1), OneKey("cpu", Q1000m)),
    Cfg(TwoKeys(Q2, Q1p5), TwoKeys(NoneV, Q2)),
    Cfg(OneKey("memory", Q500m), NoneSpec),
    Cfg(OneKey("cpu", Q1), OneKey("cpu", QNeg1)),
    Cfg(OneKey("bad", Q1), OneKey("cpu", Q4x)) }

\* resources other controllers (or Juju) set on a container
ExternalResources ==
  { NoResources,
    ResourceRequirements(OneKey("cpu", Q1000m), OneKey("cpu", Q1000m)) }

\* outcomes of one call to the cluster API: success, an ApiError with a
\* status code, or a lightkube ConfigError
ApiErrors == {"403", "409"}
ApiOutcomes == {"ok", "ConfigError"} \cup ApiErrors

\* lifecycle events the patch observes: config_changed and the refresh events
RefreshEvents == {"pebble_ready"}
ObservedEvents == {"config_changed"} \cup RefreshEvents

NoPass ==
  [state |-> "none", ev |-> "", leader |-> FALSE, reqs |-> NoResources,
   seen |-> NoResources, gets |-> 0, patches |-> 0, applies |-> 0, exc |-> "",
   failed |-> <<>>, prevOk |-> FALSE, touched |-> FALSE, raced |-> FALSE]
NoReady ==
  [called |-> FALSE, result |-> FALSE, exc |-> "", reqs |-> NoResources,
   failed |-> <<>>]

VARIABLES
  template,        \* StatefulSet spec.template.spec.containers, by name
  pod,             \* the unit's pod spec.containers, by name
  container_name,  \* ResourcePatcher.container_name
  config,          \* what limits_func and requests_func currently yield
  edits,           \* changes made from outside so far
  pc,              \* position of the running reconcile pass
  pass,            \* the current (or last) reconcile pass
  delivered,       \* observed events delivered so far
  passes,          \* reconcile passes started so far
  ready            \* the last is_ready() call

patchVars == <<template, pod, container_name, config, edits, pc, pass,
               delivered, passes, ready>>

VARIABLES
  relation,   \* whether the certificates relation exists
  relId,      \* the number Juju gave the last certificates relation
  units,      \* whether the certificates relation has a remote unit
  csrs,       \* certificates.get_requirer_csrs(): this unit's CSRs, in order
  provider,   \* certificates.get_provider_certificates()
  sans,       \* the SANs the charm passes to the constructor
  secrets,    \* whether the Juju of this unit supports secrets
  secret,     \* the Juju secret labelled cert-handler-private-vault
  databag,    \* the secret-contents entry of the unit's peer databag
  keyRead,    \* the key private_key returned since the vault was last nuked
  nextId,     \* next fresh private key / CSR
  nextCert,   \* next fresh certificate
  hev         \* the event handled last and what its handler did

certVars == <<relation, relId, units, csrs, provider, sans, secrets, secret, databag,
              keyRead, nextId, nextCert, hev>>

VARIABLES
  call        \* the call of a spec function in progress, and its outcome

pureVars == <<call>>

VARIABLES
  peer,       \* the peer relation and this unit's databag in it are readable
  vcall       \* the last call made on both vault backends, and its results

vaultVars == <<peer, vcall>>

vars == <<patchVars, certVars, pureVars, vaultVars>>

(***************************************************************************)
(* Calls of the spec functions by a charm: is_valid_spec,                  *)
(* sanitize_resource_spec_dict and limits_to_requests_scaled.              *)
(***************************************************************************)
\* the orders in which a dict of at most n entries may yield its keys
RECURSIVE Orders(_)
Orders(n) ==
  IF n = 0 THEN {<<>>}
  ELSE Orders(n - 1) \cup
       {Append(o, k) : o \in {p \in Orders(n - 1) : Len(p) = n - 1},
                       k \in Keys}
DistinctOrders(n) ==
  {o \in Orders(n) : \A i, j \in 1..Len(o) : i # j => o[i] # o[j]}
KeySet(o) == {o[i] : i \in 1..Len(o)}

\* values a caller passes in a spec
PureValues ==
  {NoneV, QEmpty, Q0, Q1, QNeg1, Q4x, Q500m, Q1p5, Q0p8Ki, Q820, QCombo, I0, I1}

\* dicts with their key order, None, and an argument that is no dict
PureArgs ==
  {[spec |-> NoneSpec, items |-> <<>>],
   [spec |-> NotDictSpec, items |-> <<>>]}
  \cup {[spec |-> Dict(KeySet(o), f), items |-> o] :
          o \in DistinctOrders(MaxItems), f \in [Keys -> PureValues]}

\* arguments of limits_to_requests_scaled
ScaledValues ==
  {NoneV, Q1, Q150m, Q200m, Q250m, Q260m, Q500m, Q1p5, Q2, Q0p8Ki, QNeg1, I1}
ScaledArgs ==
  {[spec |-> NoneSpec, items |-> <<>>],
   [spec |-> OneKey("bad", Q1), items |-> <<"bad">>]}
  \cup {[spec |-> OneKey(k, v), items |-> <<k>>] :
          k \in ResourceSpecKeys, v \in ScaledValues}
  \cup {[spec |-> TwoKeys(c, m), items |-> <<"cpu", "memory">>] :
          c \in {Q1, Q200m}, m \in {Q2, Q1p5, Q500m}}
ScalingFactors == {0, 500, 800, 1000}

NoCall ==
  [fn |-> "", spec |-> NoneSpec, items |-> <<>>, after |-> NoneSpec,
   defaults |-> NoneSpec, itemsD |-> <<>>, factor |-> 0,
   outcome |-> "", exc |-> "", result |-> NoneSpec]

CallIsValidSpec(a) ==
  /\ call.fn = ""
  /\ call' = [NoCall EXCEPT !.fn = "is_valid_spec",
                            !.spec = a.spec, !.items = a.items,
                            !.after = a.spec,
                            !.outcome = is_valid_spec_outcome(a.spec, a.items)]
  /\ UNCHANGED <<patchVars, certVars, vaultVars>>

\* the argument is copied before it is changed, so it is afterwards what
\* it was
CallSanitize(a) ==
  /\ call.fn = ""
  /\ a.spec # NotDictSpec
  /\ LET r == sanitize_resource_spec_dict(a.spec)
     IN call' = [NoCall EXCEPT !.fn = "sanitize_resource_spec_dict",
                               !.spec = a.spec, !.items = a.items,
                               !.after = a.spec,
                               !.exc = r.exc,
                               !.result = IF r.exc = "" THEN r.val ELSE NoneSpec]
  /\ UNCHANGED <<patchVars, certVars, vaultVars>>

CallLimitsToRequestsScaled(l, d, f) ==
  /\ call.fn = ""
  /\ LET r == limits_to_requests_scaled(l.spec, l.items, d.spec, d.items, f)
     IN call' = [NoCall EXCEPT !.fn = "limits_to_requests_scaled",
                               !.spec = l.spec, !.items = l.items,
                               !.after = l.spec,
                               !.defaults = d.spec, !.itemsD = d.items,
                               !.factor = f,
                               !.exc = r.exc, !.result = r.val]
  /\ UNCHANGED <<patchVars, certVars, vaultVars>>

\* the caller has its answer
Return ==
  /\ call.fn # ""
  /\ call' = NoCall
  /\ UNCHANGED <<patchVars, certVars, vaultVars>>

PureNext ==
  \/ \E a \in PureArgs : CallIsValidSpec(a)
  \/ \E a \in PureArgs : CallSanitize(a)
  \/ \E l \in ScaledArgs, d \in ScaledArgs, f \in ScalingFactors :
       CallLimitsToRequestsScaled(l, d, f)
  \/ Return

(***************************************************************************)
(* ResourcePatcher                                                         *)
(***************************************************************************)
\* _get_container: the container of that name, or ContainerNotFoundError
HasContainer(containers, name) == name \in DOMAIN containers

_patched_delta_all(name, resource_reqs) == [c \in Containers |-> resource_reqs]

\* _patched_delta: the StatefulSet sent with the patch; its template lists
\* the managed container only, with its resources only
_patched_delta(name, resource_reqs) == [c \in {name} |-> resource_reqs]

\* the API server's handling of a PatchType.APPLY patch: the containers the
\* delta names are merged by name into the template, the rest is kept
ApplyPatch_dropped(containers, delta) == containers
ApplyPatch(containers, delta) ==
  [c \in DOMAIN containers \cup DOMAIN delta |->
     IF c \in DOMAIN delta
       THEN [resources |-> delta[c],
             image |-> IF c \in DOMAIN containers THEN containers[c].image ELSE ""]
       ELSE containers[c]]

is_patched_never(containers, name, resource_reqs) == FALSE

\* is_patched, given the StatefulSet that client.get returned
is_patched(containers, name, resource_reqs) ==
  equals_canonically(containers[name].resources, resource_reqs)

patcher_is_ready_template_only(tplContainers, podContainers, name, resource_reqs) ==
  equals_canonically(tplContainers[name].resources, resource_reqs)

\* ResourcePatcher.is_ready, given the StatefulSet and the Pod read
patcher_is_ready(tplContainers, podContainers, name, resource_reqs) ==
  /\ is_patched(tplContainers, name, resource_reqs)
  /\ equals_canonically(resource_reqs, podContainers[name].resources)

(***************************************************************************)
(* KubernetesComputeResourcesPatch._patch                                  *)
(***************************************************************************)
TrustMessage == "Kubernetes resources patch failed: juju trust this application."

ApplyFailureMessage_any_api_error(exc) ==
  CASE exc = "ConfigError" -> "Error creating k8s client"
    [] exc \in {"403", "409"} -> TrustMessage
    [] OTHER -> "Kubernetes resources patch failed"

\* the message of the patch_failed event for an exception caught around
\* patcher.apply
ApplyFailureMessage(exc) ==
  CASE exc = "ConfigError" -> "Error creating k8s client"
    [] exc = "403" -> TrustMessage
    [] OTHER -> "Kubernetes resources patch failed"

\* self.on.patch_failed.emit(message=msg); return
EmitAndReturn(p, exc, msg) ==
  [p EXCEPT !.state = "returned", !.exc = exc, !.failed = Append(@, msg)]

\* an exception caught by one of the except clauses around patcher.apply
ApplyFailed(p, exc) == EmitAndReturn(p, exc, ApplyFailureMessage(exc))

\* bookkeeping: the pass ended without a failure and neither the desired spec
\* nor the StatefulSet was changed from outside since it started
CleanPass(p) == p.state = "returned" /\ p.failed = <<>> /\ ~p.touched

\* An observed event is delivered: _on_config_changed runs _patch up to its
\* first call to the cluster (obtaining, validating and sanitizing the spec).
PatchBegin(ev, leader) ==
  LET p0 == [NoPass EXCEPT !.state = "running", !.ev = ev, !.leader = leader,
                           !.prevOk = CleanPass(pass)]
      lim == sanitize_resource_spec_dict(config.limits)
      req == sanitize_resource_spec_dict(config.requests)
  IN IF config.raises
       THEN /\ pass' = EmitAndReturn(p0, "ValueError", "Failed obtaining resource limit spec")
            /\ pc' = "idle"
     ELSE IF ~is_valid_spec(config.limits) \/ ~is_valid_spec(config.requests)
       THEN /\ pass' = EmitAndReturn(p0, "", "Invalid resource limit spec")
            /\ pc' = "idle"
     ELSE IF lim.exc # ""
       THEN /\ pass' = [p0 EXCEPT !.state = "raised", !.exc = lim.exc]
            /\ pc' = "idle"
     ELSE IF req.exc # ""
       THEN /\ pass' = [p0 EXCEPT !.state = "raised", !.exc = req.exc]
            /\ pc' = "idle"
     ELSE /\ pass' = [p0 EXCEPT !.reqs = ResourceRequirements(lim.val, req.val),
                                !.applies = 1]
          /\ pc' = "is_patched"

HandlerCalls_leader_only(ev, leader) == IF leader THEN 1 ELSE 0

\* __init__: _on_config_changed is registered for config_changed and for each
\* refresh event; the number of times it runs for one delivered event
HandlerCalls(ev, leader) ==
  Cardinality({"config_changed"} \cap {ev}) + Cardinality(RefreshEvents \cap {ev})

\* the framework delivers one event at a time, to every registered observer
Deliver(ev, leader) ==
  /\ pc = "idle"
  /\ delivered < MaxEvents
  /\ delivered' = delivered + 1
  /\ passes' = passes + HandlerCalls(ev, leader)
  /\ IF HandlerCalls(ev, leader) > 0
       THEN PatchBegin(ev, leader)
       ELSE UNCHANGED <<pass, pc>>
  /\ ready' = NoReady
  /\ UNCHANGED <<template, pod, container_name, config, edits>>
  /\ UNCHANGED <<certVars, pureVars, vaultVars>>

\* apply: is_patched reads the StatefulSet and compares
ApplyIsPatched(out) ==
  /\ pc = "is_patched"
  /\ LET p == [pass EXCEPT !.gets = @ + 1]
         q == [p EXCEPT !.seen = template[container_name].resources]
     IN IF out # "ok"
          THEN pass' = ApplyFailed(p, out) /\ pc' = "idle"
        ELSE IF ~HasContainer(template, container_name)
          THEN pass' = ApplyFailed(p, "ContainerNotFoundError") /\ pc' = "idle"
        ELSE IF is_patched(template, container_name, pass.reqs)
          THEN pass' = [q EXCEPT !.state = "returned"] /\ pc' = "idle"
        ELSE pass' = q /\ pc' = "delta"
  /\ UNCHANGED <<template, pod, container_name, config, edits, delivered, passes, ready>>
  /\ UNCHANGED <<certVars, pureVars, vaultVars>>

\* apply: _patched_delta reads the StatefulSet again
ApplyDelta(out) ==
  /\ pc = "delta"
  /\ LET p == [pass EXCEPT !.gets = @ + 1]
     IN IF out # "ok"
          THEN pass' = ApplyFailed(p, out) /\ pc' = "idle"
          ELSE pass' = p /\ pc' = "patch"
  /\ UNCHANGED <<template, pod, container_name, config, edits, delivered, passes, ready>>
  /\ UNCHANGED <<certVars, pureVars, vaultVars>>

\* apply: client.patch with the delta
ApplyClientPatch(out) ==
  /\ pc = "patch"
  /\ LET p == [pass EXCEPT !.patches = @ + 1]
     IN IF out # "ok"
          THEN pass' = ApplyFailed(p, out) /\ template' = template
          ELSE /\ pass' = [p EXCEPT !.state = "returned"]
               /\ template' = ApplyPatch(template,
                                         _patched_delta(container_name, pass.reqs))
  /\ pc' = "idle"
  /\ UNCHANGED <<pod, container_name, config, edits, delivered, passes, ready>>
  /\ UNCHANGED <<certVars, pureVars, vaultVars>>

(***************************************************************************)
(* KubernetesComputeResourcesPatch.is_ready                                *)
(***************************************************************************)
IsReady(out1, out2) ==
  /\ pc = "idle"
  /\ LET lim == sanitize_resource_spec_dict(config.limits)
         req == sanitize_resource_spec_dict(config.requests)
         reqs == ResourceRequirements(lim.val, req.val)
         r0 == [NoReady EXCEPT !.called = TRUE]
         r1 == [r0 EXCEPT !.reqs = reqs]
         failed(r, exc) ==
           IF exc = "ConfigError"
             THEN [r EXCEPT !.exc = exc]
             ELSE [r EXCEPT !.failed = Append(@, "Failed to apply resource limit patch")]
     IN ready' =
          IF config.raises THEN r0
          ELSE IF ~is_valid_spec(config.limits) \/ ~is_valid_spec(config.requests) THEN r0
          ELSE IF lim.exc # "" THEN [r0 EXCEPT !.exc = lim.exc]
          ELSE IF req.exc # "" THEN [r0 EXCEPT !.exc = req.exc]
          ELSE IF out1 # "ok" THEN failed(r1, out1)
          ELSE IF ~HasContainer(template, container_name)
            THEN failed(r1, "ContainerNotFoundError")
          ELSE IF ~is_patched(template, container_name, reqs) THEN r1
          ELSE IF out2 # "ok" THEN failed(r1, out2)
          ELSE [r1 EXCEPT !.result = patcher_is_ready(template, pod,
                                                      container_name, reqs)]
  /\ ready' # ready
  /\ UNCHANGED <<template, pod, container_name, config, edits, pc, pass,
                 delivered, passes>>
  /\ UNCHANGED <<certVars, pureVars, vaultVars>>

(***************************************************************************)
(* The environment: other controllers, the StatefulSet controller, Juju.   *)
(***************************************************************************)
\* another field manager changes a container's resources in the template
ExternalEdit(c, r) ==
  /\ edits < MaxEdits
  /\ edits' = edits + 1
  /\ template[c].resources # r
  /\ template' = [template EXCEPT ![c].resources = r]
  \* bookkeeping: raced when the managed container is changed after
  \* apply's is_patched and before its patch call
  /\ pass' = [pass EXCEPT !.touched = TRUE,
                          !.raced = @ \/ (c = container_name
                                           /\ pc \in {"delta", "patch"})]
  /\ ready' = NoReady
  /\ UNCHANGED <<pod, container_name, config, pc, delivered, passes>>
  /\ UNCHANGED <<certVars, pureVars, vaultVars>>

\* the StatefulSet controller recreates the pod from the template
Rollout ==
  /\ pod # template
  /\ pod' = template
  /\ ready' = NoReady
  /\ UNCHANGED <<template, container_name, config, edits, pc, pass, delivered, passes>>
  /\ UNCHANGED <<certVars, pureVars, vaultVars>>

\* the operator changes the charm's configuration (between hooks)
SetConfig(c) ==
  /\ pc = "idle"
  /\ edits < MaxEdits
  /\ edits' = edits + 1
  /\ config # c
  /\ config' = c
  /\ pass' = [NoPass EXCEPT !.touched = TRUE]
  /\ ready' = NoReady
  /\ UNCHANGED <<template, pod, container_name, pc, delivered, passes>>
  /\ UNCHANGED <<certVars, pureVars, vaultVars>>

PatchNext ==
  \/ \E ev \in ObservedEvents, leader \in BOOLEAN : Deliver(ev, leader)
  \/ \E out \in ApiOutcomes : ApplyIsPatched(out)
  \/ \E out \in ApiOutcomes : ApplyDelta(out)
  \/ \E out \in ApiOutcomes : ApplyClientPatch(out)
  \/ \E out1, out2 \in ApiOutcomes : IsReady(out1, out2)
  \/ \E c \in Containers, r \in ExternalResources : ExternalEdit(c, r)
  \/ Rollout
  \/ \E c \in Configs : SetConfig(c)



(***************************************************************************)
(* Properties of the resources patch                                       *)
(***************************************************************************)
Managed == template[container_name].resources

\* C1: apply issues no patch call when the resources it read from the
\* template are canonically equal to the desired ones; and a pass that
\* follows a clean pass, with the same desired spec and no change from
\* outside in between, issues no patch call.
C1_ConvergedNoPatch ==
  /\ pass.patches > 0 => ~equals_canonically(pass.seen, pass.reqs)
  /\ (pass.prevOk /\ ~pass.touched) => pass.patches = 0

\* a second pass found the resources its predecessor had patched in
C1_Witness ==
  /\ pass.prevOk /\ ~pass.touched
  /\ pass.state = "returned" /\ pass.gets = 1 /\ pass.patches = 0
  /\ pass.seen = pass.reqs
  /\ pass.seen \notin ExternalResources

\* C2: _patch never lets an exception escape, and a pass that fails reports
\* it in a patch_failed event with a message.
C2_PatchNeverRaises ==
  /\ pass.state # "raised"
  /\ (pass.state = "returned" /\ pass.exc # "") => Len(pass.failed) >= 1

\* C3: a pass whose apply failed with a transient (non-403) API error has
\* tried apply again before it emitted patch_failed.
C3_TransientRetried ==
  (pass.state = "returned" /\ pass.exc \in (ApiErrors \ {"403"}))
    => pass.applies >= 2

\* C4: the patch_failed message asks for juju trust exactly when the apply
\* failed with API status 403.
C4_TrustOnlyOn403 ==
  \A i \in 1..Len(pass.failed) :
    (pass.failed[i] = TrustMessage) <=> (pass.exc = "403")

C4_Witness ==
  /\ pass.exc = "403" /\ pass.patches = 1
  /\ pass.failed = <<TrustMessage>>

\* C5: the patch call changes nothing but the resources of the managed
\* container: the other containers and the managed container's other fields
\* are as before.
C5_PatchScoped ==
  [][ (pc = "patch" /\ pc' = "idle") =>
        /\ DOMAIN template' = DOMAIN template
        /\ \A c \in DOMAIN template :
             /\ template'[c].image = template[c].image
             /\ c # container_name => template'[c] = template[c] ]_patchVars

\* a patch was applied while another container carried resources of its own
C5_Witness ==
  /\ pass.state = "returned" /\ pass.patches = 1 /\ pass.failed = <<>>
  /\ ~pass.touched
  /\ Managed = pass.reqs
  /\ template["charm"].resources # NoResources
  /\ template["charm"].resources # pass.reqs

InvalidSpec(spec) ==
  /\ ~spec.isNone
  /\ \E k \in spec.keys :
       \/ k \notin {"cpu", "memory"}
       \/ ~parse_quantity(spec.val[k]).ok
       \/ parse_quantity(spec.val[k]).val < 0

\* C6: a pass whose limits or requests spec is invalid emits exactly one
\* patch_failed event and makes no call to the cluster.
C6_InvalidSpecOneEvent ==
  (pass.state # "none" /\ ~config.raises
     /\ (InvalidSpec(config.limits) \/ InvalidSpec(config.requests)))
    => /\ pass.state = "returned"
       /\ Len(pass.failed) = 1
       /\ pass.gets = 0 /\ pass.patches = 0

\* a pass with valid limits and a negative request
C6_Witness ==
  /\ pass.state = "returned" /\ Len(pass.failed) = 1
  /\ ~InvalidSpec(config.limits) /\ InvalidSpec(config.requests)
  /\ ~config.limits.isNone

\* C7: is_ready returns True only if the template and the pod both carry
\* resources canonically equal to the desired ones (so False when only the
\* template does), and it leaves the StatefulSet as it is.
C7_ReadyMeansInEffect ==
  [][ (ready'.called /\ ready' # ready) =>
        /\ template' = template
        /\ ready'.result =>
             /\ equals_canonically(Managed, ready'.reqs)
             /\ equals_canonically(ready'.reqs, pod[container_name].resources) ]_patchVars

\* is_ready answered True for resources this library patched in
C7_Witness ==
  /\ ready.called /\ ready.result
  /\ ready.reqs \notin ExternalResources
  /\ ready.reqs # NoResources

\* C8: every delivered config_changed or refresh event has started exactly
\* one pass, leader or not, and a pass issues at most one patch call.
C8_OnePassPerEvent ==
  /\ passes = delivered
  /\ pass.patches <= 1

C8_Witness ==
  /\ delivered = 2 /\ passes = 2
  /\ ~pass.leader /\ pass.ev = "pebble_ready"
  /\ pass.patches = 1 /\ pass.state = "returned"

(***************************************************************************)
(* CertHandler (v1).  Private keys and CSRs are numbered as they are       *)
(* generated; a certificate names the CSR it was issued for.               *)
(***************************************************************************)
NoCsr == [id |-> 0, key |-> 0, sans |-> ""]
NoCert == [csr |-> 0, n |-> 0]

\* the SANs a charm may pass
Sans == {"fqdn", "fqdn,hostname"}

\* a dict of vault contents maps every key to its value, 0 for a key it
\* does not hold
VaultKeys == {"private-key", "other-key", "uninitialized-secret-key"}
EmptyVault == [k \in VaultKeys |-> 0]
NoSecret == [exists |-> FALSE, content |-> EmptyVault]

NoEvent ==
  [name |-> "", leader |-> FALSE, units |-> FALSE, csr |-> 0, cert |-> NoCert, tracked |-> 0,
   held |-> NoCert,
   exc |-> "", emitted |-> 0, creations |-> 0, renewals |-> 0]

Range(seq) == {seq[i] : i \in 1..Len(seq)}
Remove(seq, x) == SelectSeq(seq, LAMBDA y : y # x)

\* the handler's view while it runs: what it reads and writes
View == [relation |-> relation, csrs |-> csrs, secrets |-> secrets,
         secret |-> secret, databag |-> databag, keyRead |-> keyRead,
         nextId |-> nextId, sans |-> sans, leader |-> FALSE,
         exc |-> "", emitted |-> 0, creations |-> 0, renewals |-> 0]

update_replace(current, contents) == contents
\* current.update(contents)
update(current, contents) ==
  [k \in VaultKeys |-> IF contents[k] # 0 THEN contents[k] ELSE current[k]]

\* _RelationVaultBackend: the peer relation exists and its data is readable
\* (the backend's stated assumption)
_RelationVaultBackend_store(v, contents, clear) ==
  [v EXCEPT !.databag = update(IF clear THEN EmptyVault ELSE @, contents)]
_RelationVaultBackend_retrieve(v) == v.databag
_RelationVaultBackend_nuke(v) == [v EXCEPT !.databag = EmptyVault]

\* _SecretVaultBackend._secret: the secret; created holding a dummy entry
\* when there is none
_secret(v) ==
  IF v.secret.exists THEN v
  ELSE [v EXCEPT !.secret =
          [exists |-> TRUE,
           content |-> [EmptyVault EXCEPT !["uninitialized-secret-key"] = 42]]]

_SecretVaultBackend_store(v, contents, clear) ==
  LET s == _secret(v)
      current == IF clear THEN EmptyVault
                 ELSE [s.secret.content EXCEPT !["uninitialized-secret-key"] = 0]
  IN [s EXCEPT !.secret.content = update(current, contents)]
_SecretVaultBackend_retrieve(v) == _secret(v).secret.content
\* remove_all_revisions removes the secret
_SecretVaultBackend_nuke(v) == [v EXCEPT !.secret = NoSecret]

\* what a read of the vault leaves behind
Vault_accessed_secret(v) == _secret(v)
Vault_accessed(v) == IF v.secrets THEN _secret(v) ELSE v

\* Vault, over the backend the constructor chose
Vault_store_dropped(v, contents, clear) == Vault_accessed(v)
Vault_store(v, contents, clear) ==
  IF v.secrets THEN _SecretVaultBackend_store(v, contents, clear)
  ELSE _RelationVaultBackend_store(v, contents, clear)
Vault_retrieve(v) ==
  IF v.secrets THEN _SecretVaultBackend_retrieve(v)
  ELSE _RelationVaultBackend_retrieve(v)
Vault_get_value(v, key) == Vault_retrieve(v)[key]
Vault_nuke_keeps_contents(v) == [v EXCEPT !.keyRead = 0]
Vault_nuke(v) ==
  [(IF v.secrets THEN _SecretVaultBackend_nuke(v)
    ELSE _RelationVaultBackend_nuke(v)) EXCEPT !.keyRead = 0]

(***************************************************************************)
(* The two vault backends, given the same calls.                           *)
(***************************************************************************)
\* the keys callers store under, and the contents they pass to store
UserKeys == VaultKeys \ {"uninitialized-secret-key"}
StoreContents ==
  {c \in [VaultKeys -> 0..MaxVals] :
     c["uninitialized-secret-key"] = 0 /\ c # EmptyVault}

\* _RelationVaultBackend._check_ready: the exception it raises, "" if none
_check_ready_unchecked(readable) == ""
_check_ready(readable) == IF readable THEN "" ELSE "RuntimeError"

NoVaultCall ==
  [op |-> "", contents |-> EmptyVault, clear |-> FALSE, key |-> "",
   secretBefore |-> NoSecret, relationBefore |-> EmptyVault,
   secretRet |-> EmptyVault, relationRet |-> EmptyVault,
   secretVal |-> 0, relationVal |-> 0,
   relationExc |-> "", lockstep |-> TRUE]
\* the record of a call; lockstep: no call on the relation backend has
\* failed so far, so both backends went through the same calls
VaultCall(op, exc) ==
  [NoVaultCall EXCEPT !.op = op, !.secretBefore = secret,
                      !.relationBefore = databag, !.relationExc = exc,
                      !.lockstep = vcall.lockstep /\ exc = ""]

VaultStore(c, clear) ==
  /\ LET exc == _check_ready(peer)
     IN /\ secret' = _SecretVaultBackend_store(View, c, clear).secret
        /\ databag' = IF exc = ""
                        THEN _RelationVaultBackend_store(View, c, clear).databag
                        ELSE databag
        /\ vcall' = [VaultCall("store", exc) EXCEPT !.contents = c,
                                                    !.clear = clear]
  /\ UNCHANGED <<relation, relId, units, csrs, provider, sans, secrets,
                 keyRead, nextId, nextCert, hev, peer>>
  /\ UNCHANGED <<patchVars, pureVars>>

VaultNuke ==
  /\ LET exc == _check_ready(peer)
     IN /\ secret' = _SecretVaultBackend_nuke(View).secret
        /\ databag' = IF exc = "" THEN _RelationVaultBackend_nuke(View).databag
                      ELSE databag
        /\ vcall' = VaultCall("nuke", exc)
  /\ vcall' # vcall
  /\ UNCHANGED <<relation, relId, units, csrs, provider, sans, secrets,
                 keyRead, nextId, nextCert, hev, peer>>
  /\ UNCHANGED <<patchVars, pureVars>>

VaultRetrieve ==
  /\ LET exc == _check_ready(peer)
     IN /\ secret' = _secret(View).secret
        /\ vcall' = [VaultCall("retrieve", exc) EXCEPT
                       !.secretRet = _SecretVaultBackend_retrieve(View),
                       !.relationRet = IF exc = ""
                                         THEN _RelationVaultBackend_retrieve(View)
                                         ELSE EmptyVault]
  /\ vcall' # vcall
  /\ UNCHANGED <<relation, relId, units, csrs, provider, sans, secrets,
                 databag, keyRead, nextId, nextCert, hev, peer>>
  /\ UNCHANGED <<patchVars, pureVars>>

VaultGetValue(k) ==
  /\ LET exc == _check_ready(peer)
     IN /\ secret' = _secret(View).secret
        /\ vcall' = [VaultCall("get_value", exc) EXCEPT
                       !.key = k,
                       !.secretVal = _SecretVaultBackend_retrieve(View)[k],
                       !.relationVal = IF exc = ""
                                         THEN _RelationVaultBackend_retrieve(View)[k]
                                         ELSE 0]
  /\ vcall' # vcall
  /\ UNCHANGED <<relation, relId, units, csrs, provider, sans, secrets,
                 databag, keyRead, nextId, nextCert, hev, peer>>
  /\ UNCHANGED <<patchVars, pureVars>>

\* the peer relation, or this unit's databag in it, stops or starts being
\* readable
PeerChanged ==
  /\ peer' = ~peer
  /\ UNCHANGED vcall
  /\ UNCHANGED <<certVars, patchVars, pureVars>>

VaultNext ==
  \/ \E c \in StoreContents, clear \in BOOLEAN : VaultStore(c, clear)
  \/ VaultNuke
  \/ VaultRetrieve
  \/ \E k \in VaultKeys : VaultGetValue(k)
  \/ PeerChanged

\* _csr: the last CSR of the requirer's list, or None
_csr(cs) == IF Len(cs) = 0 THEN NoCsr ELSE cs[Len(cs)]

\* private_key: the stored key; generated and stored when there is none.
\* keyRead is the value returned.
private_key_not_stored(v) ==
  LET key == Vault_get_value(v, "private-key")
      r == Vault_accessed(v)
  IN IF key # 0 THEN [r EXCEPT !.keyRead = key]
     ELSE [r EXCEPT !.keyRead = r.nextId, !.nextId = @ + 1]
private_key(v) ==
  LET key == Vault_get_value(v, "private-key")
      r == Vault_accessed(v)
  IN IF key # 0 THEN [r EXCEPT !.keyRead = key]
     ELSE [Vault_store(r, [EmptyVault EXCEPT !["private-key"] = r.nextId], FALSE)
             EXCEPT !.keyRead = r.nextId, !.nextId = @ + 1]

\* _migrate_vault: on a Juju with secrets, move what the peer databag holds
\* into a secret vault that holds nothing
_migrate_vault(v) ==
  IF ~v.secrets THEN v
  ELSE LET r == Vault_accessed(v)
       IN IF Vault_retrieve(v) # EmptyVault THEN r
          ELSE IF _RelationVaultBackend_retrieve(r) # EmptyVault
            THEN _RelationVaultBackend_nuke(
                   Vault_store(r, _RelationVaultBackend_retrieve(r), FALSE))
            ELSE r

\* enabled: the relation, its units, its app and its data are all there
enabled == relation /\ units

\* what the vault holds, without the dummy entry of a fresh secret
Stored ==
  [(IF secrets THEN secret.content ELSE databag)
     EXCEPT !["uninitialized-secret-key"] = 0]

\* get_cert: the provider certificates issued for the tracked CSR; the
\* code takes the first and fails with IndexError when there is none
MatchingCerts(cs, prov) == {c \in prov : c.csr = _csr(cs).id}
get_cert_raises(cs, prov) == MatchingCerts(cs, prov) = {}
get_cert(cs, prov) == CHOOSE c \in MatchingCerts(cs, prov) : TRUE

\* _generate_csr
\* variant whose creation request is not in the else branch of the renewal
_generate_csr_renew_and_create(v, overwrite, renew, clear_cert) ==
  IF ~v.relation THEN v
  ELSE
    LET cur == _csr(v.csrs)
        v1 == IF overwrite \/ renew \/ cur = NoCsr
                THEN LET k == private_key(v)
                         csr == [id |-> k.nextId, key |-> k.keyRead,
                                 sans |-> v.sans]
                         k1 == [k EXCEPT !.nextId = @ + 1]
                     IN IF renew /\ cur # NoCsr
                          THEN [k1 EXCEPT !.csrs = Append(Remove(@, cur), csr),
                                          !.renewals = @ + 1,
                                          !.creations = @ + 1]
                          ELSE [k1 EXCEPT !.csrs = Append(@, csr),
                                          !.creations = @ + 1]
                ELSE v
    IN IF clear_cert THEN Vault_nuke(v1) ELSE v1
_generate_csr(v, overwrite, renew, clear_cert) ==
  IF ~v.relation THEN v
  ELSE
    LET cur == _csr(v.csrs)
        v1 == IF overwrite \/ renew \/ cur = NoCsr
                THEN LET k == private_key(v)
                         csr == [id |-> k.nextId, key |-> k.keyRead,
                                 sans |-> v.sans]
                         k1 == [k EXCEPT !.nextId = @ + 1]
                     IN IF renew /\ cur # NoCsr
                          THEN [k1 EXCEPT !.csrs = Append(Remove(@, cur), csr),
                                          !.renewals = @ + 1]
                          ELSE [k1 EXCEPT !.csrs = Append(@, csr),
                                          !.creations = @ + 1]
                ELSE v
    IN IF clear_cert THEN Vault_nuke(v1) ELSE v1

\* self.on.cert_changed.emit()
Emit(v) == [v EXCEPT !.emitted = @ + 1]
Raise(v, exc) == [v EXCEPT !.exc = exc]

\* the state a handler leaves behind, and the record of the event
Handled(name, evCsr, evCert, v) ==
  /\ csrs' = v.csrs
  /\ secret' = v.secret
  /\ databag' = v.databag
  /\ keyRead' = v.keyRead
  /\ nextId' = v.nextId
  /\ hev' = [name |-> name, leader |-> v.leader, units |-> units,
             csr |-> evCsr, cert |-> evCert,
             tracked |-> _csr(csrs).id,
             held |-> IF get_cert_raises(csrs, provider) THEN NoCert
                      ELSE get_cert(csrs, provider),
             exc |-> v.exc, emitted |-> v.emitted,
             creations |-> v.creations, renewals |-> v.renewals]

\* a handler may generate a private key and a CSR
CanGenerate == nextId + 1 <= MaxIds

_on_upgrade_charm(v) == _migrate_vault(v)

_on_certificates_relation_joined_overwrite(v) ==
  _generate_csr(v, TRUE, FALSE, FALSE)
_on_certificates_relation_joined(v) ==
  IF _csr(v.csrs) = NoCsr THEN _generate_csr(v, FALSE, FALSE, FALSE) ELSE v

_on_config_changed_overwrite(v) ==
  IF ~v.relation THEN v ELSE _generate_csr(v, TRUE, FALSE, FALSE)
_on_config_changed(v) ==
  IF ~v.relation THEN v ELSE _generate_csr(v, FALSE, TRUE, FALSE)

_on_certificate_available(v, event) == Emit(v)

_on_certificate_expiring(v, event) ==
  IF get_cert_raises(v.csrs, provider) THEN Raise(v, "IndexError")
  ELSE IF event = get_cert(v.csrs, provider)
    THEN _generate_csr(v, FALSE, TRUE, FALSE)
    ELSE v

_on_certificate_invalidated_any_cert(v, event) ==
  IF get_cert_raises(v.csrs, provider) THEN Raise(v, "IndexError")
  ELSE Emit(_generate_csr(v, TRUE, FALSE, TRUE))
_on_certificate_invalidated(v, event) ==
  IF get_cert_raises(v.csrs, provider) THEN Raise(v, "IndexError")
  ELSE IF event # get_cert(v.csrs, provider) THEN v
  ELSE Emit(_generate_csr(v, TRUE, FALSE, TRUE))

_on_all_certificates_invalidated(v) == Emit(_generate_csr(v, TRUE, FALSE, TRUE))

_on_certificates_relation_broken(v) == Emit(Vault_nuke(v))

(***************************************************************************)
(* Events, as Juju and the tls_certificates library deliver them.          *)
(***************************************************************************)
\* Juju creates the certificates relation
RelationCreated ==
  /\ ~relation
  /\ relId < MaxRels
  /\ relation' = TRUE
  /\ relId' = relId + 1
  /\ hev' = NoEvent
  /\ UNCHANGED <<units, csrs, provider, sans, secrets, secret, databag,
                 keyRead, nextId, nextCert>>
  /\ UNCHANGED <<patchVars, pureVars, vaultVars>>

\* a remote unit joins the certificates relation
RelationJoined(leader) ==
  /\ relation
  /\ CanGenerate
  /\ units' = TRUE
  /\ Handled("certificates_relation_joined", 0, NoCert,
             _on_certificates_relation_joined([View EXCEPT !.leader = leader]))
  /\ UNCHANGED <<relation, relId, provider, sans, secrets, nextCert>>
  /\ UNCHANGED <<patchVars, pureVars, vaultVars>>

ConfigChanged ==
  /\ CanGenerate
  /\ Handled("config_changed", 0, NoCert, _on_config_changed(View))
  /\ UNCHANGED <<relation, relId, units, provider, sans, secrets, nextCert>>
  /\ UNCHANGED <<patchVars, pureVars, vaultVars>>

\* the charm is refreshed
UpgradeCharm ==
  /\ Handled("upgrade_charm", 0, NoCert, _on_upgrade_charm(View))
  /\ UNCHANGED <<relation, relId, units, provider, sans, secrets, nextCert>>
  /\ UNCHANGED <<patchVars, pureVars, vaultVars>>

\* __init__: the handlers registered for a charm event; update_status,
\* start and install have none
UnobservedEvents == {"update_status", "start", "install"}
Observers_refresh_on_any(ev, v) == _on_config_changed(v)
Observers(ev, v) ==
  CASE ev = "config_changed" -> _on_config_changed(v)
    [] ev = "upgrade_charm" -> _on_upgrade_charm(v)
    [] OTHER -> v

\* a charm event no handler is registered for: the charm constructs the
\* CertHandler and nothing else runs
OtherEvent(ev) ==
  /\ CanGenerate
  /\ Handled(ev, 0, NoCert, Observers(ev, View))
  /\ UNCHANGED <<relation, relId, units, provider, sans, secrets, nextCert>>
  /\ UNCHANGED <<patchVars, pureVars, vaultVars>>

\* the charm reads the private_key property
PrivateKey ==
  /\ nextId <= MaxIds
  /\ Handled("private_key", 0, NoCert, private_key(View))
  /\ UNCHANGED <<relation, relId, units, provider, sans, secrets, nextCert>>
  /\ UNCHANGED <<patchVars, pureVars, vaultVars>>

\* the charm starts passing other SANs to the constructor
SansChanged(s) ==
  /\ s # sans
  /\ sans' = s
  /\ hev' = NoEvent
  /\ UNCHANGED <<relation, relId, units, csrs, provider, secrets, secret,
                 databag,
                 keyRead, nextId, nextCert>>
  /\ UNCHANGED <<patchVars, pureVars, vaultVars>>

\* the controller is upgraded to a Juju that supports secrets
JujuUpgraded ==
  /\ ~secrets
  /\ secrets' = TRUE
  /\ hev' = NoEvent
  /\ UNCHANGED <<relation, relId, units, csrs, provider, sans, secret,
                 databag,
                 keyRead, nextId, nextCert>>
  /\ UNCHANGED <<patchVars, pureVars, vaultVars>>

\* the CA issues a certificate for one of the unit's CSRs
ProviderIssue(csr) ==
  /\ relation
  /\ nextCert <= MaxCerts
  /\ \A c \in provider : c.csr # csr.id
  /\ LET cert == [csr |-> csr.id, n |-> nextCert]
     IN provider' = provider \cup {cert}
  /\ nextCert' = nextCert + 1
  /\ hev' = NoEvent
  /\ UNCHANGED <<relation, relId, units, csrs, sans, secrets, secret,
                 databag,
                 keyRead, nextId>>
  /\ UNCHANGED <<patchVars, pureVars, vaultVars>>

\* the library announces a provider certificate whose CSR is in the unit's
\* list of CSRs
CertificateAvailable(cert) ==
  /\ cert.csr \in {c.id : c \in Range(csrs)}
  /\ Handled("certificate_available", cert.csr, cert,
             _on_certificate_available(View, cert))
  /\ UNCHANGED <<relation, relId, units, provider, sans, secrets, nextCert>>
  /\ UNCHANGED <<patchVars, pureVars, vaultVars>>

\* the library announces that a certificate the CA holds for this unit
\* expires soon
CertificateExpiring(cert) ==
  /\ CanGenerate
  /\ Handled("certificate_expiring", cert.csr, cert,
             _on_certificate_expiring(View, cert))
  /\ UNCHANGED <<relation, relId, units, provider, sans, secrets, nextCert>>
  /\ UNCHANGED <<patchVars, pureVars, vaultVars>>

\* the library announces that a certificate the CA holds for this unit was
\* revoked or has expired
CertificateInvalidated(cert) ==
  /\ CanGenerate
  /\ Handled("certificate_invalidated", cert.csr, cert,
             _on_certificate_invalidated(View, cert))
  /\ UNCHANGED <<relation, relId, units, provider, sans, secrets, nextCert>>
  /\ UNCHANGED <<patchVars, pureVars, vaultVars>>

\* the library announces that all certificates of the relation are invalid
AllCertificatesInvalidated ==
  /\ relation
  /\ CanGenerate
  /\ Handled("all_certificates_invalidated", 0, NoCert,
             _on_all_certificates_invalidated(View))
  /\ UNCHANGED <<relation, relId, units, provider, sans, secrets, nextCert>>
  /\ UNCHANGED <<patchVars, pureVars, vaultVars>>

\* the certificates relation is removed, and its data with it.  In the
\* relation-broken hook the relation is no longer in the model; the
\* library's own observer of relation-broken emits
\* all_certificates_invalidated before the handler's observer runs.
RelationBroken ==
  /\ relation
  /\ LET gone == [View EXCEPT !.relation = FALSE]
         v == _on_certificates_relation_broken(
                _on_all_certificates_invalidated(gone))
     IN /\ secret' = v.secret
        /\ databag' = v.databag
        /\ keyRead' = v.keyRead
        /\ nextId' = v.nextId
        /\ hev' = [NoEvent EXCEPT !.name = "certificates_relation_broken",
                                  !.units = units,
                                  !.tracked = _csr(csrs).id,
                                  !.exc = v.exc,
                                  !.emitted = v.emitted,
                                  !.creations = v.creations,
                                  !.renewals = v.renewals]
  /\ relation' = FALSE
  /\ units' = FALSE
  /\ csrs' = <<>>
  /\ provider' = {}
  /\ UNCHANGED <<relId, sans, secrets, nextCert>>
  /\ UNCHANGED <<patchVars, pureVars, vaultVars>>

CertNext ==
  \/ RelationCreated
  \/ \E leader \in BOOLEAN : RelationJoined(leader)
  \/ ConfigChanged
  \/ UpgradeCharm
  \/ \E ev \in UnobservedEvents : OtherEvent(ev)
  \/ PrivateKey
  \/ \E s \in Sans : SansChanged(s)
  \/ JujuUpgraded
  \/ \E csr \in Range(csrs) : ProviderIssue(csr)
  \/ \E cert \in provider : CertificateAvailable(cert)
  \/ \E cert \in provider : CertificateExpiring(cert)
  \/ \E cert \in provider : CertificateInvalidated(cert)
  \/ AllCertificatesInvalidated
  \/ RelationBroken

(***************************************************************************)
(* Properties of the certificate handler                                   *)
(***************************************************************************)
\* C9: a certificate-available event leads to cert_changed only if its CSR
\* is the tracked CSR; an event of a superseded CSR emits nothing.
C9_AvailableOnlyForTrackedCsr ==
  (hev.name = "certificate_available" /\ hev.emitted > 0)
    => hev.csr = hev.tracked

\* C10: a certificate-expiring or certificate-invalidated event whose
\* certificate is not the handler's current certificate (there may be none
\* for the tracked CSR) is ignored without an exception.
C10_MismatchIgnored ==
  (hev.name \in {"certificate_expiring", "certificate_invalidated"}
     /\ hev.cert # hev.held)
    => (hev.exc = "" /\ hev.emitted = 0)

\* C21: the vault is secret-backed exactly when the host supports secrets
\* and peer-backed otherwise: a handler touches only the store of that
\* backend; on a host without secrets, after certificates-relation-joined
\* private_key is a non-empty key held in the peer databag, on leader and
\* non-leader units.
C21_BackendByCapability ==
  [][hev'.name # "" =>
       /\ IF secrets THEN databag' = databag ELSE secret' = secret
       /\ (hev'.name = "certificates_relation_joined" /\ ~secrets) =>
            /\ hev'.exc = ""
            /\ private_key(View)'.keyRead # 0
            /\ private_key(View)'.databag["private-key"]
                 = private_key(View)'.keyRead
            /\ private_key(View)'.secret = secret]_vars

C21_Witness ==
  /\ hev.name = "certificates_relation_joined" /\ ~hev.leader
  /\ ~secrets /\ databag["private-key"] # 0 /\ ~secret.exists

\* C11: while the vault is not cleared by relation-broken, a matching
\* certificate-invalidated or all-certificates-invalidated (upgrade_charm,
\* config_changed and relation-joined included), every read of private_key
\* returns the key that was first generated.
C11_KeyNeverRegenerated ==
  [][(keyRead # 0 /\ keyRead' # 0) => keyRead' = keyRead]_vars

\* C19: without a certificates relation there is no tracked CSR and
\* enabled is False, and a read of private_key returns a key that is then
\* stored; once the relation has a remote unit a CSR is tracked and
\* enabled is True.
C19_InactiveThenEnabled ==
  /\ ~relation => (_csr(csrs) = NoCsr /\ ~enabled)
  /\ hev.name = "private_key" =>
       (hev.exc = "" /\ keyRead # 0 /\ Stored["private-key"] = keyRead)
  /\ (relation /\ units) => (_csr(csrs) # NoCsr /\ enabled)

C19_Witness ==
  /\ ~relation /\ relId = 0
  /\ hev.name = "private_key" /\ keyRead # 0

\* C18: upgrade_charm on a Juju with secrets, when the secret vault holds
\* no stored entry and the peer databag holds vault contents, copies those
\* contents into the secret vault and removes the peer databag entry;
\* upgrade_charm never writes contents to the peer databag.
C18_MigratesPeerToSecret ==
  [][hev'.name = "upgrade_charm" =>
       /\ (secrets /\ secret.content["private-key"] = 0 /\ databag # EmptyVault)
            => (secret'.content = databag /\ databag' = EmptyVault)
       /\ databag' \in {databag, EmptyVault}]_vars

\* C12: a certificate-invalidated event for the held server certificate,
\* with the certificates relation present, submits one creation request
\* for a fresh CSR, clears the vault and emits cert_changed exactly once.
C12_MatchingInvalidated ==
  (hev.name = "certificate_invalidated" /\ hev.cert = hev.held) =>
    /\ hev.creations = 1 /\ hev.renewals = 0
    /\ _csr(csrs).id \notin {0, hev.tracked}
    /\ Stored = EmptyVault
    /\ hev.emitted = 1

C12_Witness ==
  /\ hev.name = "certificate_invalidated" /\ hev.cert = hev.held
  /\ relation /\ hev.emitted = 1

\* C13: a certificate-invalidated event for a certificate other than the
\* held server certificate leaves the vault and the tracked CSR as they
\* were, sends no request to the CA and emits no cert_changed.
C13_MismatchedInvalidatedFrame ==
  [][(hev'.name = "certificate_invalidated" /\ hev'.cert # hev'.held) =>
       /\ UNCHANGED <<csrs, secret, databag, nextId>>
       /\ hev'.creations = 0 /\ hev'.renewals = 0
       /\ hev'.emitted = 0]_vars

C13_Witness ==
  /\ hev.name = "certificate_invalidated"
  /\ hev.held # NoCert /\ hev.cert # hev.held
  /\ Stored # EmptyVault

\* C14: a certificates-relation-joined event that finds a CSR sends
\* nothing to the CA and one that finds none sends one creation request,
\* so two joined events in a row make exactly one creation request.
C14_JoinedCreatesOnce ==
  [][hev'.name = "certificates_relation_joined" =>
       /\ hev'.renewals = 0
       /\ IF _csr(csrs) = NoCsr
            THEN hev'.creations = 1 /\ Len(csrs') = 1
            ELSE hev'.creations = 0 /\ csrs' = csrs
       /\ hev.name = "certificates_relation_joined"
            => hev'.creations = 0]_vars

\* the second joined event of a relation, on the CSR the first one made
C14_Witness ==
  /\ hev.name = "certificates_relation_joined" /\ hev.units
  /\ hev.tracked # 0 /\ hev.creations = 0 /\ Len(csrs) = 1

C16_NoRenewalWhenSansUnchanged ==
  [][(hev'.name = "config_changed" /\ _csr(csrs) # NoCsr
        /\ _csr(csrs).sans = sans) =>
       (hev'.renewals = 0 /\ csrs' = csrs)]_vars

\* C17: certificates-relation-broken clears the vault and the cert_changed
\* observer runs exactly once for the relation removal.
C17_BrokenEmitsOnce ==
  hev.name = "certificates_relation_broken" =>
    (Stored = EmptyVault /\ hev.emitted = 1)

\* C20: relation-broken leaves no CSR behind, and the joined event of a
\* later certificates relation that finds no CSR submits one creation
\* request for a CSR made with the stored private key.
C20_RejoinCreatesCsr ==
  /\ hev.name = "certificates_relation_broken" => (~relation /\ csrs = <<>>)
  /\ (hev.name = "certificates_relation_joined" /\ relId > 1
        /\ hev.tracked = 0) =>
       /\ hev.creations = 1 /\ hev.exc = ""
       /\ Len(csrs) = 1
       /\ _csr(csrs).key # 0
       /\ _csr(csrs).key = Stored["private-key"]

C20_Witness ==
  /\ hev.name = "certificates_relation_joined" /\ relId = 2
  /\ hev.tracked = 0 /\ hev.creations = 1 /\ enabled

\* C30: whenever a CSR is tracked and the vault holds a private key, the
\* CSR was generated from that key.
C30_CsrBoundToStoredKey ==
  (_csr(csrs) # NoCsr /\ Stored["private-key"] # 0)
    => _csr(csrs).key = Stored["private-key"]

\* what the accessors expose to the charm: the stored private key, the
\* tracked CSR and the certificate issued for it (get_cert)
Exposed ==
  [private_key |-> Stored["private-key"],
   csr |-> _csr(csrs),
   cert |-> IF get_cert_raises(csrs, provider) THEN NoCert
            ELSE get_cert(csrs, provider)]
\* the events the handler observes
HandledEvents ==
  {"config_changed", "certificates_relation_joined", "certificate_available",
   "certificate_expiring", "certificate_invalidated",
   "all_certificates_invalidated", "certificates_relation_broken",
   "upgrade_charm"}

\* C32: a handled event that changes what the accessors expose (the
\* private key, the tracked CSR, the certificate of the tracked CSR)
\* emits cert_changed while it is handled.
C32_ChangeIsSignalled ==
  [][(hev'.name \in HandledEvents /\ Exposed' # Exposed)
       => hev'.emitted >= 1]_vars

\* C33: the requirer's list of CSRs holds at most one CSR, whatever events
\* were handled (a creation request appends to the list, a renewal
\* request replaces the old CSR).
C33_AtMostOneCsr == Len(csrs) <= 1

\* C34: handling one event sends at most one request to the CA: one
\* creation request or one renewal request, never both.
C34_AtMostOneRequest == hev.creations + hev.renewals <= 1

\* an event whose handling sent a renewal request
C34_Witness ==
  /\ hev.name = "certificate_expiring" /\ hev.renewals = 1
  /\ hev.creations = 0

\* C38: a certificate-expiring event for the held server certificate sends
\* exactly one renewal request, replacing the tracked CSR by a new CSR
\* made from the stored private key, leaves the vault contents unchanged
\* and emits no cert_changed.
C38_ExpiringRenewsOnly ==
  [][(hev'.name = "certificate_expiring" /\ hev'.held # NoCert
        /\ hev'.cert = hev'.held) =>
       /\ hev'.exc = ""
       /\ hev'.renewals = 1 /\ hev'.creations = 0
       /\ hev'.emitted = 0
       /\ Stored' = Stored
       /\ _csr(csrs') # _csr(csrs)
       /\ _csr(csrs) \notin Range(csrs')
       /\ _csr(csrs').key = Stored["private-key"]]_vars

C35_BackendsAgree ==
  vcall.lockstep =>
    /\ vcall.op = "retrieve" => vcall.secretRet = vcall.relationRet
    /\ vcall.op = "get_value" => vcall.secretVal = vcall.relationVal

C40_NotReadyRaises ==
  [][(vcall' # vcall /\ ~peer) =>
       /\ vcall'.relationExc = "RuntimeError"
       /\ databag' = databag]_vars

\* a store attempted on an unreadable databag that held a key
C40_Witness ==
  /\ vcall.op = "store" /\ vcall.relationExc = "RuntimeError"
  /\ vcall.relationBefore["private-key"] # 0
  /\ vcall.contents["private-key"] # vcall.relationBefore["private-key"]
  /\ databag = vcall.relationBefore

(***************************************************************************)
(* Properties of the spec functions                                        *)
(***************************************************************************)
\* C22: is_valid_spec returns a boolean for every input and never raises;
\* it returns True exactly when the spec is None or a dict with keys in
\* {cpu, memory} whose values are None or parseable quantities >= 0, and
\* False otherwise, also for non-dict specs and non-string values.
C22_IsValidSpecTotal ==
  call.fn = "is_valid_spec" =>
    /\ call.outcome \in {"True", "False"}
    /\ call.outcome = "True" <=> is_valid_spec(call.spec)

\* the fractional byte part of a memory quantity in thousandths
FractionalBytes(x) == x % 1000

\* C23: when the memory entry is a quantity with a non-zero fractional
\* byte part (also one below one byte), sanitize_resource_spec_dict returns
\* the spec with memory replaced by the next higher whole byte count as a
\* plain string; a whole-byte memory quantity is returned as given.
C23_MemoryRoundedUp ==
  (/\ call.fn = "sanitize_resource_spec_dict"
   /\ "memory" \in call.spec.keys
   /\ call.spec.val["memory"].k = "str"
   /\ parse_quantity(call.spec.val["memory"]).ok) =>
    LET memory == call.spec.val["memory"]
        x == parse_quantity(memory).val
    IN /\ call.exc = ""
       /\ "memory" \in call.result.keys
       /\ call.result.val["memory"] =
            IF FractionalBytes(x) # 0 THEN Str(TRUE, Ceil(x) * 1000, "")
            ELSE memory

\* C24: sanitize_resource_spec_dict returns a spec that holds exactly the
\* entries of its input whose value is truthy, with unknown keys and
\* non-memory values as given, and its input is afterwards what it was.
C24_KeepsTruthyEntries ==
  call.fn = "sanitize_resource_spec_dict" =>
    /\ call.after = call.spec
    /\ call.exc = ""
    /\ IF Falsy(call.spec) THEN call.result = call.spec
       ELSE /\ call.result.isDict
            /\ call.result.keys =
                 {k \in call.spec.keys : Truthy(call.spec.val[k])}
            /\ \A k \in call.result.keys \ {"memory"} :
                 call.result.val[k] = call.spec.val[k]

\* C25: sanitizing what sanitize_resource_spec_dict returned returns the
\* same spec again.
C25_SanitizeIdempotent ==
  (call.fn = "sanitize_resource_spec_dict" /\ call.exc = "") =>
    LET again == sanitize_resource_spec_dict(call.result)
    IN again.exc = "" /\ again.val = call.result

\* a call that dropped an entry and rounded the memory
C25_Witness ==
  /\ call.fn = "sanitize_resource_spec_dict" /\ call.exc = ""
  /\ call.spec.keys = {"cpu", "memory"}
  /\ call.spec.val["memory"] = Q0p8Ki
  /\ call.result.keys = {"memory"}
  /\ call.result.val["memory"] = Q820

\* C26: for a spec that is_valid_spec accepts, sanitize_resource_spec_dict
\* returns a spec, and is_valid_spec accepts that spec.
C26_SanitizeKeepsValid ==
  (/\ call.fn = "sanitize_resource_spec_dict"
   /\ is_valid_spec_outcome(call.spec, call.items) = "True") =>
    /\ call.exc = ""
    /\ is_valid_spec(call.result)

\* the entries a sanitized spec holds, and the quantity of one of them in
\* thousandths (memory in whole bytes)
NormalizedKeys(spec) ==
  IF spec.isNone THEN {} ELSE {k \in spec.keys : Truthy(spec.val[k])}
NormalizedQuantity(spec, k) ==
  LET x == parse_quantity(spec.val[k]).val
  IN IF k = "memory" /\ FractionalBytes(x) # 0 THEN Ceil(x) * 1000 ELSE x
\* the two-ray function of limit x and default d (thousandths) for the
\* factor f (thousandths), in millionths
TwoRay(x, d, f) ==
  IF x <= d THEN 1000 * x
  ELSE IF f * x <= 1000 * d THEN 1000 * d
  ELSE f * x
ValidScaledCall ==
  /\ call.fn = "limits_to_requests_scaled"
  /\ 0 < call.factor /\ call.factor < 1000
  /\ is_valid_spec_outcome(call.spec, call.items) = "True"
  /\ is_valid_spec_outcome(call.defaults, call.itemsD) = "True"

\* C27: for valid limits and default requests and 0 < f < 1,
\* limits_to_requests_scaled returns exactly the keys of the sanitized
\* default requests, each with the two-ray value of its limit x (its
\* default d when it has no limit): x if x <= d, d if d < x <= d/f, f*x
\* beyond, rounded up to 3 decimal places.
C27_TwoRayPerDefaultKey ==
  ValidScaledCall =>
    /\ call.exc = ""
    /\ call.result.isDict
    /\ call.result.keys = NormalizedKeys(call.defaults)
    /\ \A k \in call.result.keys :
         LET d == NormalizedQuantity(call.defaults, k)
             x == IF k \in NormalizedKeys(call.spec)
                    THEN NormalizedQuantity(call.spec, k) ELSE d
         IN call.result.val[k] =
              Str(TRUE, CeilDiv(TwoRay(x, d, call.factor), 1000), "")

\* the quantity of entry k of a spec, in thousandths
Quantity(spec, k) == parse_quantity(spec.val[k]).val

\* C28: with the default requests and the factor 0 < f < 1 fixed, the
\* value limits_to_requests_scaled returns for a key does not decrease
\* when the key's limit grows, and is never below min(limit, default).
C28_MonotoneAndBoundedBelow ==
  (ValidScaledCall /\ call.exc = "") =>
    \A k \in call.result.keys \cap NormalizedKeys(call.spec) :
      /\ Quantity(call.result, k) >= Quantity(call.spec, k)
           \/ Quantity(call.result, k) >= Quantity(call.defaults, k)
      /\ \A l \in ScaledArgs :
           LET r == limits_to_requests_scaled(l.spec, l.items, call.defaults,
                                              call.itemsD, call.factor)
           IN (/\ is_valid_spec_outcome(l.spec, l.items) = "True"
               /\ r.exc = ""
               /\ k \in NormalizedKeys(l.spec)
               /\ Quantity(l.spec, k) >= Quantity(call.spec, k))
                => Quantity(r.val, k) >= Quantity(call.result, k)

\* a limit on the scaled ray: cpu 1 with default 200m and factor 0.8
C28_Witness ==
  /\ ValidScaledCall /\ call.exc = ""
  /\ call.spec = OneKey("cpu", Q1)
  /\ call.defaults = OneKey("cpu", Q200m)
  /\ call.factor = 800
  /\ call.result = OneKey("cpu", Str(TRUE, 800, ""))

\* C29: limits_to_requests_scaled fails with ValueError and returns no
\* result when the scaling factor is not strictly between 0 and 1, or the
\* limits or the default requests are not a valid spec.
C29_InvalidArgumentsValueError ==
  (/\ call.fn = "limits_to_requests_scaled"
   /\ \/ ~(0 < call.factor /\ call.factor < 1000)
      \/ ~is_valid_spec(call.spec)
      \/ ~is_valid_spec(call.defaults)) =>
    /\ call.exc = "ValueError"
    /\ call.result = NoneSpec

\* C37, as stated: for every key limits_to_requests_scaled returns that
\* also has a limit, the returned quantity is at most the limit quantity
\* as given.
C37_RequestAtMostGivenLimit ==
  (ValidScaledCall /\ call.exc = "") =>
    \A k \in call.result.keys \cap NormalizedKeys(call.spec) :
      Quantity(call.result, k) <= Quantity(call.spec, k)

\* C37, amended: for every key limits_to_requests_scaled returns that also
\* has a limit, the returned quantity is at most the limit quantity of the
\* sanitized limits (memory rounded up to whole bytes).
C37_RequestAtMostSanitizedLimit ==
  (ValidScaledCall /\ call.exc = "") =>
    \A k \in call.result.keys \cap NormalizedKeys(call.spec) :
      Quantity(call.result, k) <= NormalizedQuantity(call.spec, k)

\* a memory limit of 1.5 bytes with a default of 2 bytes: the request is 2
C37_Witness ==
  /\ ValidScaledCall /\ call.exc = ""
  /\ call.spec = OneKey("memory", Q1p5)
  /\ call.defaults = OneKey("memory", Q2)
  /\ call.result = OneKey("memory", Str(TRUE, 2000, ""))

(***************************************************************************)
(* Specifications                                                          *)
(***************************************************************************)
\* the resources patch, with the certificate handler as constructed
InitPatch ==
  /\ template \in { [c \in Containers |->
                       [resources |-> IF c = "placeholder" THEN r ELSE NoResources,
                        image |-> c]] : r \in ExternalResources }
  /\ pod = template
  /\ container_name \in ContainerNames
  /\ config \in Configs
  /\ edits = 0
  /\ pc = "idle"
  /\ pass = NoPass
  /\ delivered = 0
  /\ passes = 0
  /\ ready = NoReady
  /\ relation = FALSE
  /\ relId = 0
  /\ units = FALSE
  /\ csrs = <<>>
  /\ provider = {}
  /\ sans = "fqdn"
  /\ secrets = TRUE
  /\ secret = NoSecret
  /\ databag = EmptyVault
  /\ keyRead = 0
  /\ nextId = 1
  /\ nextCert = 1
  /\ hev = NoEvent
  /\ call = NoCall
  /\ peer = TRUE
  /\ vcall = NoVaultCall

SpecPatch == InitPatch /\ [][PatchNext]_vars

\* the certificate handler, with the resources patch at rest
InitCert ==
  /\ template = [c \in Containers |-> [resources |-> NoResources, image |-> c]]
  /\ pod = template
  /\ container_name = "placeholder"
  /\ config = Cfg(NoneSpec, NoneSpec)
  /\ edits = 0
  /\ pc = "idle"
  /\ pass = NoPass
  /\ delivered = 0
  /\ passes = 0
  /\ ready = NoReady
  /\ relation = FALSE
  /\ relId = 0
  /\ units = FALSE
  /\ csrs = <<>>
  /\ provider = {}
  /\ sans = "fqdn"
  /\ secrets \in BOOLEAN
  /\ secret = NoSecret
  /\ databag = EmptyVault
  /\ keyRead = 0
  /\ nextId = 1
  /\ nextCert = 1
  /\ hev = NoEvent
  /\ call = NoCall
  /\ peer = TRUE
  /\ vcall = NoVaultCall

SpecCert == InitCert /\ [][CertNext]_vars

\* the spec functions, called one at a time, with the resources patch and
\* the certificate handler at rest
InitPure ==
  /\ template = [c \in Containers |-> [resources |-> NoResources, image |-> c]]
  /\ pod = template
  /\ container_name = "placeholder"
  /\ config = Cfg(NoneSpec, NoneSpec)
  /\ edits = 0
  /\ pc = "idle"
  /\ pass = NoPass
  /\ delivered = 0
  /\ passes = 0
  /\ ready = NoReady
  /\ relation = FALSE
  /\ relId = 0
  /\ units = FALSE
  /\ csrs = <<>>
  /\ provider = {}
  /\ sans = "fqdn"
  /\ secrets = TRUE
  /\ secret = NoSecret
  /\ databag = EmptyVault
  /\ keyRead = 0
  /\ nextId = 1
  /\ nextCert = 1
  /\ hev = NoEvent
  /\ call = NoCall
  /\ peer = TRUE
  /\ vcall = NoVaultCall

SpecPure == InitPure /\ [][PureNext]_vars

\* the two vault backends, empty, with everything else at rest
InitVault ==
  /\ template = [c \in Containers |-> [resources |-> NoResources, image |-> c]]
  /\ pod = template
  /\ container_name = "placeholder"
  /\ config = Cfg(NoneSpec, NoneSpec)
  /\ edits = 0
  /\ pc = "idle"
  /\ pass = NoPass
  /\ delivered = 0
  /\ passes = 0
  /\ ready = NoReady
  /\ relation = FALSE
  /\ relId = 0
  /\ units = FALSE
  /\ csrs = <<>>
  /\ provider = {}
  /\ sans = "fqdn"
  /\ secrets = TRUE
  /\ secret = NoSecret
  /\ databag = EmptyVault
  /\ keyRead = 0
  /\ nextId = 1
  /\ nextCert = 1
  /\ hev = NoEvent
  /\ call = NoCall
  /\ peer = TRUE
  /\ vcall = NoVaultCall

SpecVault == InitVault /\ [][VaultNext]_vars

====
